---- MODULE Spec2Model ----
(***************************************************************************)
(* Model of HLQuery.ToQueryPlan (query_benchmarker_cassandra/query.go):     *)
(* the planning of one high-level query against a client-side index.        *)
(*                                                                          *)
(* Instants (time.Time) are represented by their Unix nanosecond count and  *)
(* durations by their nanosecond count, so Before/After are < and > and     *)
(* Add is +.  bucketTimeIntervals, the Series predicates and NewQueryPlan   *)
(* are not part of query.go; they are modelled from their specification.    *)
(***************************************************************************)
EXTENDS Integers, Sequences, FiniteSets, TLC

\* ------------------------------------------------------------------ bounds
MaxTime == 4
MaxWidth == 2
MaxSeries == 2

\* ----------------------------------------------------------------- helpers
Range(f) == {f[x] : x \in DOMAIN f}

Min(a, b) == IF a < b THEN a ELSE b

Max(a, b) == IF a > b THEN a ELSE b

\* TimeInterval: a value type over (Start, End)
TimeInterval(s, e) == [Start |-> s, End |-> e]

\* -------------------------------------------------------------- input sets
Times == 0..MaxTime

Widths == 0..MaxWidth

\* q.TagSets is a [][]string
TagFilters ==
  { << >>,
    << <<"a=1", "b=2">> >>,
    << <<"a=1", "b=2">>, <<"c=3">> >> }

SeriesTags == { {"c=3", "d=9"}, {"a=1"}, {"a=1", "c=3"} }

SeriesWindows == { TimeInterval(0, 1), TimeInterval(1, MaxTime + 1) }

\* the series that can be registered in the index: those of the queried
\* measurement and field with every tag set and window, one of another
\* measurement and one of another field
SeriesKinds ==
  [Table : {"series_double"}, Measurement : {"cpu"}, Field : {"usage_user"},
   Tags : SeriesTags, Window : SeriesWindows]
  \cup
  [Table : {"series_double"}, Measurement : {"mem"}, Field : {"usage_user"},
   Tags : {{"a=1"}}, Window : {TimeInterval(0, MaxTime + 1)}]
  \cup
  [Table : {"series_double"}, Measurement : {"cpu"}, Field : {"usage_system"},
   Tags : {{"a=1"}}, Window : {TimeInterval(0, MaxTime + 1)}]

SeriesId(i) == <<"s1", "s2", "s3", "s4">>[i]

\* a registered series: its kind plus the row identifier of its slot
MkSeries(kind, i) ==
  [Table |-> kind.Table, Id |-> SeriesId(i), Measurement |-> kind.Measurement,
   Field |-> kind.Field, Tags |-> kind.Tags, Window |-> kind.Window]

Catalogs ==
  UNION { { [i \in 1..n |-> MkSeries(ks[i], i)] : ks \in [1..n -> SeriesKinds] }
          : n \in 0..MaxSeries }

HLQueries ==
  [MeasurementName : {"cpu"}, FieldName : {"usage_user"},
   AggregationType : {"avg"}, TimeStart : Times, TimeEnd : Times,
   GroupByDuration : Widths, TagSets : TagFilters]

\* ------------------------------------------------------------------- state
VARIABLES q, csi, pc, seriesChoices, tis, bucketedSeries, idx, cqlBuckets, qp, err

vars == <<q, csi, pc, seriesChoices, tis, bucketedSeries, idx, cqlBuckets, qp, err>>

\* a *QueryPlan is << >> (nil) or <<plan>>; an error is "nil" or its message
NoPlan == << >>

NoError == "nil"

EmptyMap == [x \in {} |-> << >>]

Init ==
  /\ q \in HLQueries
  /\ csi \in Catalogs
  /\ pc = "init"
  /\ seriesChoices = << >>
  /\ tis = << >>
  /\ bucketedSeries = EmptyMap
  /\ idx = 1
  /\ cqlBuckets = EmptyMap
  /\ qp = NoPlan
  /\ err = NoError

\* ------------------------------------------- collaborators (from their spec)
\* ClientSideIndex.CopyOfSeriesCollection: an independent copy of the series
CopyOfSeriesCollection(index) == [i \in DOMAIN index |-> index[i]]

\* the loop of the Time Bucketer: interval k is [start+k*w, start+(k+1)*w),
\* continuing until the interval's start would reach or pass end
RECURSIVE BucketLoop(_, _, _, _)
BucketLoop(cur, end, window, acc) ==
  IF cur < end
    THEN BucketLoop(cur + window, end, window,
                    Append(acc, TimeInterval(cur, cur + window)))
    ELSE acc

\* Time Bucketer: one interval [start, end] for a zero width and for
\* start = end (the degenerate interval); an inverted range is handed on as
\* the one malformed interval that plan construction rejects
bucketTimeIntervals(start, end, window) ==
  IF window = 0 \/ ~(start < end)
    THEN << TimeInterval(start, end) >>
    ELSE BucketLoop(start, end, window, << >>)

MatchesMeasurementName(s, name) == s.Measurement = name

MatchesFieldName(s, name) == s.Field = name

\* variant: the groups OR'ed and the tags of a group AND'ed
MatchesTagSetsOrOfAnds(s, tagSets) ==
  \/ Len(tagSets) = 0
  \/ \E g \in DOMAIN tagSets : \A j \in DOMAIN tagSets[g] : tagSets[g][j] \in s.Tags

\* "each subgroup is OR'ed and they are all AND'ed together"
MatchesTagSets(s, tagSets) ==
  \A g \in DOMAIN tagSets : \E j \in DOMAIN tagSets[g] : tagSets[g][j] \in s.Tags

\* the series' validity window and the interval have a non-empty intersection
MatchesTimeInterval(s, ti) ==
  Max(s.Window.Start, ti.Start) < Min(s.Window.End, ti.End)

\* plan construction fails on a malformed interval among the keys
NewQueryPlan(aggrLabel, buckets) ==
  IF \E ti \in DOMAIN buckets : ti.End < ti.Start
    THEN [qp |-> NoPlan, err |-> "malformed interval"]
    ELSE [qp |-> << [AggregatorLabel |-> aggrLabel,
                     BucketedCQLQueries |-> buckets] >>,
          err |-> NoError]

\* ------------------------------------------------------------ ToQueryPlan
\* variant: the map is not pre-populated, keys appear on the first append
EmptyBucketsLazy(t) == EmptyMap

\* bucketedSeries[ti] = []Series{} for every ti of tis
EmptyBuckets(t) == [ti \in Range(t) |-> << >>]

\* m[k] = append(m[k], v) on a Go map: a missing key reads as the nil slice
MapAppend(m, k, v) ==
  IF k \in DOMAIN m THEN [m EXCEPT ![k] = Append(@, v)] ELSE m @@ (k :> << v >>)

\* variant: the field-name skip is missing
SurvivesQuickSkipNoField(s, query) ==
  /\ MatchesMeasurementName(s, query.MeasurementName)
  /\ MatchesTagSets(s, query.TagSets)

\* the three quick skips: measurement, then field, then tag sets
SurvivesQuickSkip(s, query) ==
  /\ MatchesMeasurementName(s, query.MeasurementName)
  /\ MatchesFieldName(s, query.FieldName)
  /\ MatchesTagSets(s, query.TagSets)

\* the inner loop over tis, from position k on
RECURSIVE AssociateSeries(_, _, _, _)
AssociateSeries(bs, s, t, k) ==
  IF k > Len(t)
    THEN bs
    ELSE AssociateSeries(IF MatchesTimeInterval(s, t[k])
                           THEN MapAppend(bs, t[k], s)
                           ELSE bs,
                         s, t, k + 1)

ClampStart(ti, query) ==
  IF ti.Start < query.TimeStart THEN query.TimeStart ELSE ti.Start

\* variant: the bucket end is not clamped to the query end
ClampEndNone(ti, query) == ti.End

ClampEnd(ti, query) ==
  IF ti.End > query.TimeEnd THEN query.TimeEnd ELSE ti.End

\* time.Time.UnixNano of an instant held as its nanosecond count
UnixNano(t) == t

\* variant: the two time bounds are bound in the wrong order
NewCQLQuerySwapped(aggrLabel, tableName, rowName, timeStartNanos, timeEndNanos) ==
  [PreparableQueryString |->
     "SELECT " \o aggrLabel \o "(value) FROM " \o tableName
       \o " WHERE series_id = ? AND timestamp_ns >= ? AND timestamp_ns < ?",
   Args |-> << rowName, timeEndNanos, timeStartNanos >>]

NewCQLQuery(aggrLabel, tableName, rowName, timeStartNanos, timeEndNanos) ==
  [PreparableQueryString |->
     "SELECT " \o aggrLabel \o "(value) FROM " \o tableName
       \o " WHERE series_id = ? AND timestamp_ns >= ? AND timestamp_ns < ?",
   Args |-> << rowName, timeStartNanos, timeEndNanos >>]

\* the CQLQueries of one bucket, one per series of its slice, in order
ToCQLQueries(ti, seriesSlice, query) ==
  [i \in 1..Len(seriesSlice) |->
     NewCQLQuery(query.AggregationType, seriesSlice[i].Table, seriesSlice[i].Id,
                 UnixNano(ClampStart(ti, query)), UnixNano(ClampEnd(ti, query)))]

\* variant: the error of NewQueryPlan is dropped
PlanResultDropErr(aggrLabel, buckets) ==
  [NewQueryPlan(aggrLabel, buckets) EXCEPT !.err = NoError]

\* qp, err = NewQueryPlan(...); return
PlanResult(aggrLabel, buckets) == NewQueryPlan(aggrLabel, buckets)

\* ----------------------------------------------------------------- actions
\* query.go 41-51: copy the series, build the buckets, pre-populate the map
BuildBuckets ==
  /\ pc = "init"
  /\ seriesChoices' = CopyOfSeriesCollection(csi)
  /\ tis' = bucketTimeIntervals(q.TimeStart, q.TimeEnd, q.GroupByDuration)
  /\ bucketedSeries' = EmptyBuckets(tis')
  /\ idx' = 1
  /\ pc' = "match"
  /\ UNCHANGED <<q, csi, cqlBuckets, qp, err>>

\* query.go 55-65: one iteration of the series loop that hits a quick skip
SkipSeries ==
  /\ pc = "match"
  /\ idx <= Len(seriesChoices)
  /\ ~SurvivesQuickSkip(seriesChoices[idx], q)
  /\ idx' = idx + 1
  /\ UNCHANGED <<q, csi, pc, seriesChoices, tis, bucketedSeries, cqlBuckets, qp, err>>

\* query.go 55-74: one iteration of the series loop that reaches the buckets
BucketSeries ==
  /\ pc = "match"
  /\ idx <= Len(seriesChoices)
  /\ SurvivesQuickSkip(seriesChoices[idx], q)
  /\ bucketedSeries' = AssociateSeries(bucketedSeries, seriesChoices[idx], tis, 1)
  /\ idx' = idx + 1
  /\ UNCHANGED <<q, csi, pc, seriesChoices, tis, cqlBuckets, qp, err>>

\* query.go 74-77: the series loop ends, cqlBuckets is made
EndMatch ==
  /\ pc = "match"
  /\ idx > Len(seriesChoices)
  /\ cqlBuckets' = EmptyMap
  /\ pc' = "convert"
  /\ UNCHANGED <<q, csi, seriesChoices, tis, bucketedSeries, idx, qp, err>>

\* query.go 78-96: one iteration of the range over bucketedSeries; a Go map
\* is ranged over in an unspecified order
ConvertBucket ==
  /\ pc = "convert"
  /\ \E ti \in DOMAIN bucketedSeries \ DOMAIN cqlBuckets :
       cqlBuckets' = cqlBuckets @@ (ti :> ToCQLQueries(ti, bucketedSeries[ti], q))
  /\ UNCHANGED <<q, csi, pc, seriesChoices, tis, bucketedSeries, idx, qp, err>>

\* query.go 98-99: build the plan and return it with its error
Finish ==
  /\ pc = "convert"
  /\ DOMAIN bucketedSeries \subseteq DOMAIN cqlBuckets
  /\ LET r == PlanResult(q.AggregationType, cqlBuckets)
     IN  /\ qp' = r.qp
         /\ err' = r.err
  /\ pc' = "done"
  /\ UNCHANGED <<q, csi, seriesChoices, tis, bucketedSeries, idx, cqlBuckets>>

Next ==
  \/ BuildBuckets
  \/ SkipSeries
  \/ BucketSeries
  \/ EndMatch
  \/ ConvertBucket
  \/ Finish

Spec == Init /\ [][Next]_vars

\* ------------------------------------------------------ vocabulary of claims
Returned == pc = "done"

ValidRange == q.TimeStart <= q.TimeEnd

HasPlan == qp # NoPlan

Plan == qp[1].BucketedCQLQueries

Buckets == Range(bucketTimeIntervals(q.TimeStart, q.TimeEnd, q.GroupByDuration))

\* the half-open interval [lo, hi) as a set of instants
Span(lo, hi) == { t \in 0..(2 * MaxTime + MaxWidth + 1) : lo <= t /\ t < hi }

Overlaps(s, b) == Span(s.Window.Start, s.Window.End) \cap Span(b.Start, b.End) # {}

PassesNameTests(s) == s.Measurement = q.MeasurementName /\ s.Field = q.FieldName

GroupTags(g) == Range(g)

\* AND of ORs: every group shares a tag with the series
EveryGroupHit(s) == \A g \in Range(q.TagSets) : GroupTags(g) \cap s.Tags # {}

\* OR of ANDs: no group at all, or some group contained in the series' tags
SomeGroupWhole(s) ==
  q.TagSets = << >> \/ \E g \in Range(q.TagSets) : GroupTags(g) \subseteq s.Tags

QueriesFor(s, b) == { i \in DOMAIN Plan[b] : Plan[b][i].Args[1] = s.Id }

\* C1: the key set of the returned plan is exactly the bucket set of
\* bucketTimeIntervals for (TimeStart, TimeEnd, GroupByDuration); when no
\* series matches a query of a valid range, the plan is returned without
\* error and every bucket is present with an empty query list.
C1_PlanKeysAreBuckets ==
  Returned =>
    /\ HasPlan => DOMAIN Plan = Buckets
    /\ (ValidRange /\ \A s \in Range(csi) : ~(PassesNameTests(s) /\ MatchesTagSets(s, q.TagSets)))
         => /\ err = NoError
            /\ HasPlan
            /\ DOMAIN Plan = Buckets
            /\ \A b \in Buckets : Plan[b] = << >>

C1_Witness ==
  /\ Returned /\ HasPlan /\ err = NoError
  /\ Len(csi) = MaxSeries
  /\ \A s \in Range(csi) : ~PassesNameTests(s)
  /\ Cardinality(DOMAIN Plan) >= 2
  /\ \A b \in DOMAIN Plan : Plan[b] = << >>

\* C2: for every bucket B of the plan and every series S of the snapshot,
\* B's list holds exactly one query for S when S passes the measurement,
\* field and tag tests and its window overlaps B, and none otherwise; the
\* list holds nothing else.
C2_OneQueryPerMatchingSeries ==
  (Returned /\ HasPlan) =>
    \A b \in DOMAIN Plan :
      /\ \A s \in Range(csi) :
           Cardinality(QueriesFor(s, b)) =
             IF PassesNameTests(s) /\ MatchesTagSets(s, q.TagSets) /\ Overlaps(s, b)
               THEN 1 ELSE 0
      /\ \A i \in DOMAIN Plan[b] : \E s \in Range(csi) : Plan[b][i].Args[1] = s.Id

C2_Witness ==
  /\ Returned /\ HasPlan
  /\ \E s \in Range(csi) : \E b1, b2 \in DOMAIN Plan :
       b1 # b2 /\ QueriesFor(s, b1) # {} /\ QueriesFor(s, b2) # {}
  /\ \E s \in Range(csi) : \E b1, b2 \in DOMAIN Plan :
       QueriesFor(s, b1) # {} /\ QueriesFor(s, b2) = {}
  /\ \E s \in Range(csi) : ~PassesNameTests(s)

C4_BucketsCoverRange ==
  (pc # "init" /\ ValidRange) =>
    LET n == Len(tis)
        cs(k) == ClampStart(tis[k], q)
        ce(k) == ClampEnd(tis[k], q)
    IN  /\ n >= 1
        /\ cs(1) = q.TimeStart
        /\ ce(n) = q.TimeEnd
        /\ \A k \in 1..n : cs(k) <= ce(k)
        /\ \A k \in 1..(n - 1) :
             /\ tis[k].Start < tis[k + 1].Start
             /\ tis[k].End = tis[k + 1].Start
             /\ ce(k) = cs(k + 1)
        /\ UNION { Span(cs(k), ce(k)) : k \in 1..n } = Span(q.TimeStart, q.TimeEnd)
        /\ \A j, k \in 1..n : j # k => Span(cs(j), ce(j)) \cap Span(cs(k), ce(k)) = {}

C4_Witness ==
  /\ Returned
  /\ Len(tis) >= 2
  /\ tis[Len(tis)].End > q.TimeEnd
  /\ q.TimeStart > 0

C7_ZeroWidthOneBucket ==
  (pc # "init" /\ q.GroupByDuration = 0) =>
    /\ tis = << TimeInterval(q.TimeStart, q.TimeEnd) >>
    /\ (Returned /\ ValidRange) =>
         /\ HasPlan
         /\ DOMAIN Plan = { TimeInterval(q.TimeStart, q.TimeEnd) }
         /\ \A b \in DOMAIN Plan : \A i \in DOMAIN Plan[b] :
              Plan[b][i].Args[2] = q.TimeStart /\ Plan[b][i].Args[3] = q.TimeEnd

C7_Witness ==
  /\ Returned /\ HasPlan
  /\ q.GroupByDuration = 0
  /\ q.TimeStart < q.TimeEnd
  /\ \E b \in DOMAIN Plan : Len(Plan[b]) >= 1

\* the buckets of the k-rule: [start + k*w, start + (k+1)*w) for every k >= 0
\* whose start is strictly before end
KRule(start, end, w) ==
  LET n == Cardinality({ k \in 0..(2 * MaxTime) : start + k * w < end })
  IN  [k \in 1..n |-> TimeInterval(start + (k - 1) * w, start + k * w)]

\* what C8 says of the plan: the keys are the un-clamped buckets and the
\* queries of a key that passes the end are bound to the query's end
LastKeyUnclamped ==
  (Returned /\ HasPlan) =>
    /\ DOMAIN Plan = Range(tis)
    /\ \A b \in DOMAIN Plan : \A i \in DOMAIN Plan[b] :
         b.End > q.TimeEnd => Plan[b][i].Args[3] = q.TimeEnd

\* start=0, end=100, width=30: starts {0,30,60,90}, last key [90,120), bound end 100
Example_0_100_30 ==
  LET t == bucketTimeIntervals(0, 100, 30)
      example == [q EXCEPT !.TimeStart = 0, !.TimeEnd = 100, !.GroupByDuration = 30]
  IN  /\ t = << TimeInterval(0, 30), TimeInterval(30, 60),
                TimeInterval(60, 90), TimeInterval(90, 120) >>
      /\ ClampEnd(t[4], example) = 100
      /\ ClampStart(t[4], example) = 90

C9_DegenerateRangeOneBucket ==
  (pc # "init" /\ q.TimeStart = q.TimeEnd) =>
    /\ Len(tis) = 1
    /\ tis[1].Start = q.TimeStart /\ tis[1].End = q.TimeStart
    /\ Returned => (HasPlan /\ Cardinality(DOMAIN Plan) = 1)

C9_Witness ==
  /\ Returned /\ HasPlan
  /\ q.TimeStart = q.TimeEnd
  /\ q.GroupByDuration > 0
  /\ Len(csi) >= 1
  /\ Cardinality(DOMAIN Plan) = 1

\* C10: for start <= end every query of the returned plan binds a range
\* with query.start <= boundStart <= boundEnd <= query.end.
C10_BoundRangeInsideQuery ==
  (Returned /\ HasPlan /\ ValidRange) =>
    \A b \in DOMAIN Plan : \A i \in DOMAIN Plan[b] :
      /\ q.TimeStart <= Plan[b][i].Args[2]
      /\ Plan[b][i].Args[2] <= Plan[b][i].Args[3]
      /\ Plan[b][i].Args[3] <= q.TimeEnd

C10_Witness ==
  /\ Returned /\ HasPlan
  /\ \E b \in DOMAIN Plan : \E i \in DOMAIN Plan[b] :
       /\ b.End > q.TimeEnd
       /\ Plan[b][i].Args[2] > q.TimeStart
       /\ Plan[b][i].Args[3] = q.TimeEnd

====
